---- MODULE Spec2Model ----
(***************************************************************************)
(* Rock / Scissors / Paper framework (src/rsp/rsp.py).                     *)
(*                                                                         *)
(* Python values are modelled as tagged records [type, val]: a str is      *)
(* [type |-> "str", val |-> <<characters>>], the int 42 is                 *)
(* [type |-> "int", val |-> <<"4", "2">>] (its digits), so that values of  *)
(* different Python types are comparable and never equal.  A container is  *)
(* [type |-> "tuple" | "list", items |-> <<values>>].  An exception is     *)
(* [type |-> <class name>, msg |-> <message prefix>].                      *)
(***************************************************************************)
EXTENDS Integers, Sequences, FiniteSets, TLC

VARIABLES choices, pc, config, error, scores, player_hand, robo_hand,
          result_str, ui_out,
          hands,      \* main's hands = _factory.hands
          last_choice, \* player_choice's choice, the last input read
          non_draws   \* history: completed rounds whose two hands differ

vars == <<choices, pc, config, error, scores, player_hand, robo_hand,
          result_str, ui_out, hands, last_choice,
          non_draws>>

-----------------------------------------------------------------------------
(* Bounds of the model.                                                    *)

\* Longest tuple handed to GameOptions when only its construction is checked.
MaxLen == 4
\* Longest non-tuple container handed to GameOptions.
MaxListLen == 3
\* Longest tuple handed to GameOptions when the game is played with it.
MaxGameLen == 5
\* Number of points (won and lost rounds) after which the model stops
\* playing further rounds.
MaxPoints == 1
\* The same when the game is played with one of a few fixed tuples.
MaxMainPoints == 3

-----------------------------------------------------------------------------
(* Python strings.                                                         *)

Str(chars) == [type |-> "str", val |-> chars]

None == [type |-> "NoneType", val |-> <<>>]

LowerCase == <<"a","b","c","d","e","f","g","h","i","j","k","l","m",
               "n","o","p","q","r","s","t","u","v","w","x","y","z">>
UpperCase == <<"A","B","C","D","E","F","G","H","I","J","K","L","M",
               "N","O","P","Q","R","S","T","U","V","W","X","Y","Z">>

\* The upper-case letter of each lower-case letter.
UpperOf ==
    [c \in {LowerCase[i] : i \in 1..Len(LowerCase)} |->
        UpperCase[CHOOSE i \in 1..Len(LowerCase) : LowerCase[i] = c]]

\* str.upper() on one character.
upper_char(c) == IF c \in DOMAIN UpperOf THEN UpperOf[c] ELSE c

\* str.upper()
upper(s) == Str([i \in 1..Len(s.val) |-> upper_char(s.val[i])])

IsSpace(c) == c \in {" ", "\t"}

RECURSIVE lstrip(_)
lstrip(cs) == IF cs # <<>> /\ IsSpace(Head(cs)) THEN lstrip(Tail(cs)) ELSE cs

RECURSIVE rstrip(_)
rstrip(cs) ==
    IF cs # <<>> /\ IsSpace(cs[Len(cs)])
    THEN rstrip(SubSeq(cs, 1, Len(cs) - 1))
    ELSE cs

\* str.strip()
strip(s) == Str(rstrip(lstrip(s.val)))

\* Python sequence indexing seq[i], 0-based, negative indices counted from
\* the end.  Only used where the index is in range.
PyGetItem(seq, i) == IF i >= 0 THEN seq[i + 1] ELSE seq[Len(seq) + i + 1]

Range(seq) == {seq[i] : i \in 1..Len(seq)}

-----------------------------------------------------------------------------
(* Module constants.                                                       *)

Rock     == Str(<<"R","o","c","k">>)
Paper    == Str(<<"P","a","p","e","r">>)
Scissors == Str(<<"S","c","i","s","s","o","r","s">>)

DEFAULT_CHOICE_NAMES == [type |-> "tuple", items |-> <<Rock, Paper, Scissors>>]

QUIT_KEY == Str(<<"Q">>)

-----------------------------------------------------------------------------
(* Results of calls: a call either returns a value or raises.              *)

NoException == [type |-> "", msg |-> ""]
NoValue     == [type |-> "NoneType", items |-> <<>>]

Return(v)        == [raised |-> FALSE, exc |-> NoException, value |-> v]
Raise(type, msg) == [raised |-> TRUE, exc |-> [type |-> type, msg |-> msg],
                     value |-> NoValue]

MsgTuple     == "Tuple required."
MsgTooFew    == "3 or more choices required."
MsgEven      == "Number of choices must be odd."
MsgDuplicate == "Duplicate choice"
MsgNotStr    == "Each choice must be a string."
MsgLetter    == "Each choice must begin with a unique letter."
MsgIndex     == "string index out of range"

-----------------------------------------------------------------------------
(* class GameOptions                                                       *)

\* The loop of validate_choices comparing first letters case-sensitively.
RECURSIVE CheckFirstLetters_case_sensitive(_, _, _)
CheckFirstLetters_case_sensitive(choices_, i, first_letters) ==
    IF i > Len(choices_.items) THEN Return(choices_)
    ELSE LET choice == choices_.items[i] IN
         IF choice.type # "str" THEN Raise("TypeError", MsgNotStr)
         ELSE IF Len(choice.val) = 0 THEN Raise("IndexError", MsgIndex)
         ELSE LET letter == Str(<<PyGetItem(choice.val, 0)>>) IN
              IF letter \in first_letters THEN Raise("ValueError", MsgLetter)
              ELSE CheckFirstLetters_case_sensitive(choices_, i + 1,
                                     first_letters \cup {letter})

\* The loop of validate_choices over choices[i..], with the first letters
\* seen so far.  choice[0] of an empty str raises IndexError.
RECURSIVE CheckFirstLetters(_, _, _)
CheckFirstLetters(choices_, i, first_letters) ==
    IF i > Len(choices_.items) THEN Return(choices_)
    ELSE LET choice == choices_.items[i] IN
         IF choice.type # "str" THEN Raise("TypeError", MsgNotStr)
         ELSE IF Len(choice.val) = 0 THEN Raise("IndexError", MsgIndex)
         ELSE LET letter == upper(Str(<<PyGetItem(choice.val, 0)>>)) IN
              IF letter \in first_letters THEN Raise("ValueError", MsgLetter)
              ELSE CheckFirstLetters(choices_, i + 1,
                                     first_letters \cup {letter})

\* validate_choices without the test for an even number of choices.
validate_choices_no_odd_check(choices_) ==
    IF choices_.type # "tuple" THEN Raise("TypeError", MsgTuple)
    ELSE IF Len(choices_.items) < 3 THEN Raise("ValueError", MsgTooFew)
    ELSE IF Len(choices_.items) # Cardinality(Range(choices_.items))
         THEN Raise("ValueError", MsgDuplicate)
    ELSE CheckFirstLetters(choices_, 1, {})

\* validate_choices returning the choices normalized to upper case.
validate_choices_normalizing(choices_) ==
    IF choices_.type # "tuple" THEN Raise("TypeError", MsgTuple)
    ELSE IF Len(choices_.items) < 3 THEN Raise("ValueError", MsgTooFew)
    ELSE IF Len(choices_.items) % 2 = 0 THEN Raise("ValueError", MsgEven)
    ELSE IF Len(choices_.items) # Cardinality(Range(choices_.items))
         THEN Raise("ValueError", MsgDuplicate)
    ELSE LET v == CheckFirstLetters(choices_, 1, {})
         IN  IF v.raised THEN v
             ELSE Return([type |-> "tuple",
                          items |-> [i \in 1..Len(choices_.items) |->
                                        upper(choices_.items[i])]])

\* GameOptions.validate_choices
validate_choices(choices_) ==
    IF choices_.type # "tuple" THEN Raise("TypeError", MsgTuple)
    ELSE IF Len(choices_.items) < 3 THEN Raise("ValueError", MsgTooFew)
    ELSE IF Len(choices_.items) % 2 = 0 THEN Raise("ValueError", MsgEven)
    ELSE IF Len(choices_.items) # Cardinality(Range(choices_.items))
         THEN Raise("ValueError", MsgDuplicate)
    ELSE CheckFirstLetters(choices_, 1, {})

\* The last 0-based index at which seq holds v: the iteration of a dict
\* comprehension or of a loop filling a dict that wrote the entry for v.
LastIndex(seq, v) ==
    CHOOSE i \in 0..(Len(seq) - 1) :
        /\ seq[i + 1] = v
        /\ \A j \in 0..(Len(seq) - 1) : seq[j + 1] = v => j <= i

\* GameOptions.generate_choice_keys
generate_choice_keys(names) ==
    [i \in 1..Len(names.items) |->
        upper(Str(<<PyGetItem(names.items[i].val, 0)>>))]

\* _map_initial_to_name keyed by name[0] without upper().
map_initial_to_name_no_upper(names) ==
    LET keys == [i \in 1..Len(names.items) |->
                    Str(<<PyGetItem(names.items[i].val, 0)>>)]
    IN  [k \in Range(keys) |-> names.items[LastIndex(keys, k) + 1]]

\* GameOptions._map_initial_to_name
map_initial_to_name(names) ==
    LET keys == generate_choice_keys(names)
    IN  [k \in Range(keys) |-> names.items[LastIndex(keys, k) + 1]]

\* _map_cyclic_hierarchy walking forward (idx + j + 1) instead of backward.
map_cyclic_hierarchy_forward(names) ==
    LET number_of_beaten == (Len(names.items) - 1) \div 2
    IN  [choice \in Range(names.items) |->
            LET idx == LastIndex(names.items, choice)
            IN  [j1 \in 1..number_of_beaten |->
                    PyGetItem(names.items,
                              (idx + (j1 - 1) + 1) % Len(names.items))]]

\* _map_cyclic_hierarchy starting at the choice itself (idx - j).
map_cyclic_hierarchy_off_by_one(names) ==
    LET number_of_beaten == (Len(names.items) - 1) \div 2
    IN  [choice \in Range(names.items) |->
            LET idx == LastIndex(names.items, choice)
            IN  [j1 \in 1..number_of_beaten |->
                    PyGetItem(names.items, idx - (j1 - 1))]]

\* GameOptions._map_cyclic_hierarchy
map_cyclic_hierarchy(names) ==
    LET number_of_beaten == (Len(names.items) - 1) \div 2
    IN  [choice \in Range(names.items) |->
            LET idx == LastIndex(names.items, choice)
            IN  [j1 \in 1..number_of_beaten |->
                    PyGetItem(names.items, idx - (j1 - 1) - 1)]]

\* A GameOptions object.
NoConfig == [names |-> NoValue, choice_keys |-> <<>>, choice_map |-> <<>>,
             is_beaten_by |-> <<>>]

\* GameOptions.__init__
GameOptions(choice_names) ==
    LET v == validate_choices(choice_names)
    IN  IF v.raised THEN [raised |-> TRUE, exc |-> v.exc, obj |-> NoConfig]
        ELSE [raised |-> FALSE, exc |-> NoException,
              obj |-> [names        |-> v.value,
                       choice_keys  |-> generate_choice_keys(v.value),
                       choice_map   |-> map_initial_to_name(v.value),
                       is_beaten_by |-> map_cyclic_hierarchy(v.value)]]

\* GameOptions.reverse_choice_map
reverse_choice_map(options) ==
    LET keys   == options.choice_keys
        values == [i \in 1..Len(keys) |-> options.choice_map[keys[i]]]
    IN  [name \in Range(values) |-> keys[LastIndex(values, name) + 1]]

-----------------------------------------------------------------------------
(* class Hand                                                              *)

NoHand == [choice_key |-> None, name |-> None,
           is_beaten_by |-> [type |-> "NoneType", val |-> <<>>],
           beaten_by |-> None]

\* validate_choice falling back to the first name instead of raising.
validate_choice_with_default(options, choice) ==
    IF choice \in Range(options.choice_keys)
    THEN Return([choice_key |-> choice, name |-> options.choice_map[choice]])
    ELSE IF choice \in Range(options.names.items)
    THEN Return([choice_key |-> reverse_choice_map(options)[choice],
                 name |-> choice])
    ELSE Return([choice_key |-> options.choice_keys[1],
                 name |-> options.names.items[1]])

\* Hand.validate_choice, as the pair of attributes it assigns.
validate_choice(options, choice) ==
    IF choice \in Range(options.choice_keys)
    THEN Return([choice_key |-> choice, name |-> options.choice_map[choice]])
    ELSE IF choice \in Range(options.names.items)
    THEN Return([choice_key |-> reverse_choice_map(options)[choice],
                 name |-> choice])
    ELSE Raise("ValueError", "Invalid choice")

\* Hand.__init__
Hand(options, hand_choice) ==
    LET v == validate_choice(options, hand_choice)
    IN  IF v.raised THEN [raised |-> TRUE, exc |-> v.exc, obj |-> NoHand]
        ELSE [raised |-> FALSE, exc |-> NoException,
              obj |-> [choice_key   |-> v.value.choice_key,
                       name         |-> v.value.name,
                       is_beaten_by |-> [type |-> "dict",
                                         val |-> options.is_beaten_by],
                       beaten_by    |-> None]]

\* Hand.beats looking up other_hand.name instead of self.name.
beats_wrong_key(self, other_hand) ==
    IF other_hand.is_beaten_by.type # "dict"
    THEN Raise("TypeError", "indices must be integers")
    ELSE IF other_hand.name \notin DOMAIN other_hand.is_beaten_by.val
    THEN Raise("KeyError", "name")
    ELSE Return(other_hand.name
                   \in Range(other_hand.is_beaten_by.val[other_hand.name]))

\* Hand.beats
beats(self, other_hand) ==
    IF other_hand.is_beaten_by.type # "dict"
    THEN Raise("TypeError", "indices must be integers")
    ELSE IF self.name \notin DOMAIN other_hand.is_beaten_by.val
    THEN Raise("KeyError", "name")
    ELSE Return(other_hand.name \in Range(other_hand.is_beaten_by.val[self.name]))

\* Hand.__eq__ between two Hand objects.
Hand_eq(self, other) == self.name = other.name

-----------------------------------------------------------------------------
(* class HandsFactory                                                      *)
(* A reference to a Hand of the factory is modelled by the Hand's index in *)
(* _hands.                                                                 *)

\* self._hands as first created: [Hand(options, name) for name in names].
new_hands(options) ==
    [i \in 1..Len(options.names.items) |->
        Hand(options, options.names.items[i]).obj]

\* self._hands_by_name = {hand.name: hand for hand in self._hands}
hands_by_name(hands_) ==
    LET hand_names == [i \in 1..Len(hands_) |-> hands_[i].name]
    IN  [name \in Range(hand_names) |-> LastIndex(hand_names, name) + 1]

\* HandsFactory._get_beaten_by_list: the list of Hands (references) found
\* by get_hand_by_name for the names options.is_beaten_by lists for hand.
get_beaten_by_list(options, hands_, hand) ==
    LET beaten_by_names == options.is_beaten_by[hand.name]
    IN  [type |-> "list",
         val |-> [j \in 1..Len(beaten_by_names) |->
                     hands_by_name(hands_)[beaten_by_names[j]]]]

\* HandsFactory.__init__, as the list HandsFactory.hands returns: every
\* Hand's is_beaten_by replaced by _update_hand_properties.
HandsFactory(options) ==
    LET hands_ == new_hands(options)
    IN  [i \in 1..Len(hands_) |->
            [hands_[i] EXCEPT
                !.is_beaten_by = get_beaten_by_list(options, hands_, hands_[i])]]

\* HandsFactory.get_hand_by_name on the factory's hands.
get_hand_by_name(factory_hands, name) ==
    IF name \in DOMAIN hands_by_name(factory_hands)
    THEN Return(factory_hands[hands_by_name(factory_hands)[name]])
    ELSE Raise("KeyError", "name")

-----------------------------------------------------------------------------
(* class UI and the game loop                                              *)

\* UI.get_user_input applied to the line the user typed.
get_user_input(line) == upper(strip(line))

\* main's loop body without the test for equal hands.
round_result_no_draw(player, robo) ==
    LET b == beats(player, robo)
    IN  IF b.raised THEN b
        ELSE IF b.value THEN Return("WIN")
        ELSE Return("LOSE")

\* The branch of main's loop body taken for two hands, a call result whose
\* value is the result announcement.
round_result(player, robo) ==
    IF Hand_eq(player, robo) THEN Return("DRAW")
    ELSE LET b == beats(player, robo)
         IN  IF b.raised THEN b
             ELSE IF b.value THEN Return("WIN")
             ELSE Return("LOSE")

\* main's loop body adding the point of a lost round to the player.
update_scores_player_only(s, result) ==
    IF result = "DRAW" THEN s
    ELSE [s EXCEPT !.player = @ + 1]

\* The Scores after the branch of main's loop body announcing result.
update_scores(s, result) ==
    IF result = "DRAW" THEN s
    ELSE IF result = "WIN" THEN [s EXCEPT !.player = @ + 1]
    ELSE [s EXCEPT !.robo = @ + 1]

-----------------------------------------------------------------------------
(* Inputs.                                                                 *)

rock    == Str(<<"r","o","c","k">>)
Batman  == Str(<<"B","a","t","m","a","n">>)
Lizard  == Str(<<"L","i","z","a","r","d">>)
Quit    == Str(<<"Q","u","i","t">>)
Empty   == Str(<<>>)
Int42   == [type |-> "int", val |-> <<"4","2">>]

\* The values a candidate container may hold.
Values == {Rock, rock, Batman, Paper, Lizard, Scissors, Quit, Empty, Int42}

SeqsUpTo(S, n) == UNION {[1..m -> S] : m \in 0..n}

\* The containers handed to GameOptions.
Inputs ==
    {[type |-> "tuple", items |-> t] : t \in SeqsUpTo(Values, MaxLen)}
    \cup {[type |-> "list", items |-> t] : t \in SeqsUpTo(Values, MaxListLen)}

\* The tuples the game is played with.
GameValues == {Rock, Batman, Paper, Lizard, Scissors}

GameInputs ==
    {[type |-> "tuple", items |-> t] : t \in SeqsUpTo(GameValues, MaxGameLen)}

\* The lines a user may type at the prompt.
Lines ==
    {Str(<<c>>) : c \in {"r", "b", "P", "l", "q", "x"}}
    \cup {Str(<<" ","s"," ">>)}

-----------------------------------------------------------------------------
(* The program.                                                            *)

Start ==
    /\ pc = "init"
    /\ config = NoConfig
    /\ error = NoException
    /\ scores = [player |-> 0, robo |-> 0]
    /\ player_hand = NoHand
    /\ robo_hand = NoHand
    /\ result_str = ""
    /\ ui_out = ""
    /\ hands = <<>>
    /\ last_choice = None
    /\ non_draws = 0

\* default_config = GameOptions(choices); an exception ends the program.
Construct ==
    /\ pc = "init"
    /\ LET g == GameOptions(choices)
       IN  /\ pc' = IF g.raised THEN "raised" ELSE "configured"
           /\ config' = g.obj
           /\ error' = g.exc
    /\ UNCHANGED <<choices, scores, player_hand, robo_hand, result_str, ui_out,
                   hands, last_choice, non_draws>>

\* main up to its loop: scores = Scores(); ui.display_result(scores);
\* _factory = HandsFactory(config); hands = _factory.hands.
Main ==
    /\ pc = "configured"
    /\ pc' = "prompt"
    /\ scores' = [player |-> 0, robo |-> 0]
    /\ ui_out' = "scores"
    /\ hands' = HandsFactory(config)
    /\ UNCHANGED <<choices, config, error, player_hand, robo_hand, result_str,
                   last_choice, non_draws>>

\* player_choice reads QUIT_KEY: quit_game.
Quit_game(line) ==
    /\ pc = "prompt"
    /\ QUIT_KEY = get_user_input(line)
    /\ last_choice' = get_user_input(line)
    /\ pc' = "exited"
    /\ ui_out' = "Bye"
    /\ UNCHANGED <<choices, config, error, scores, player_hand, robo_hand,
                   result_str, hands, non_draws>>

\* player_choice reads a line Hand rejects: ui.invalid_choice and prompt again.
Invalid_choice(line) ==
    /\ pc = "prompt"
    /\ LET typed == get_user_input(line)
       IN  /\ QUIT_KEY # typed
           /\ Hand(config, typed).raised
           /\ last_choice' = typed
    /\ ui_out' = "Invalid choice"
    /\ UNCHANGED <<choices, pc, config, error, scores, player_hand, robo_hand,
                   result_str, hands, non_draws>>

\* player_choice returns a Hand; the rest of main's loop body for it with
\* the name random.choice draws.  No round is played once max_points points
\* have been scored.
RoundUpTo(line, robo_name, max_points) ==
    /\ pc = "prompt"
    /\ scores.player + scores.robo < max_points
    /\ LET typed == get_user_input(line)
           h == Hand(config, typed)
           p == h.obj
           r == Hand(config, robo_name).obj
           o == round_result(p, r)
       IN  /\ QUIT_KEY # typed
           /\ ~h.raised
           /\ last_choice' = typed
           /\ player_hand' = p
           /\ robo_hand' = r
           /\ IF o.raised
              THEN /\ pc' = "raised"
                   /\ error' = o.exc
                   /\ UNCHANGED <<scores, result_str, ui_out, non_draws>>
              ELSE /\ scores' = update_scores(scores, o.value)
                   /\ result_str' = o.value
                   /\ ui_out' = "round"
                   /\ non_draws' = IF p.name # r.name THEN non_draws + 1
                                                      ELSE non_draws
                   /\ UNCHANGED <<pc, error>>
    /\ UNCHANGED <<choices, config, hands>>

Round(line, robo_name) == RoundUpTo(line, robo_name, MaxPoints)

Next ==
    \/ Construct
    \/ Main
    \/ \E line \in Lines : Quit_game(line)
    \/ \E line \in Lines : Invalid_choice(line)
    \/ \E line \in Lines : \E robo_name \in Range(config.names.items) :
          Round(line, robo_name)

\* The program run with a tuple of GameInputs.
Init == choices \in GameInputs /\ Start

Spec == Init /\ [][Next]_vars

\* The construction of GameOptions alone, for every container of Inputs.
InitOptions == choices \in Inputs /\ Start

SpecOptions == InitOptions /\ [][Construct]_vars

\* The program run with one of a few fixed tuples, for more rounds and with
\* more lines typed.
aaA == Str(<<"a","a","A">>)
BBB == Str(<<"B","B","B">>)
Ccc == Str(<<"C","c","c">>)

MainInputs ==
    {DEFAULT_CHOICE_NAMES,
     [type |-> "tuple", items |-> <<Rock, Batman, Paper, Lizard, Scissors>>],
     [type |-> "tuple", items |-> <<aaA, BBB, Ccc>>],
     [type |-> "tuple", items |-> <<Quit, Paper, Scissors>>]}

MainLines ==
    Lines \cup {Rock, Empty, Str(<<"s">>), Str(<<"a">>), Str(<<"c">>),
                Str(<<"b","b","b">>), Str(<<"Q","u","i","t">>),
                Str(<<"p","a","p","e","r">>)}

InitMain == choices \in MainInputs /\ Start

NextMain ==
    \/ Construct
    \/ Main
    \/ \E line \in MainLines : Quit_game(line)
    \/ \E line \in MainLines : Invalid_choice(line)
    \/ \E line \in MainLines : \E robo_name \in Range(config.names.items) :
          RoundUpTo(line, robo_name, MaxMainPoints)

SpecMain == InitMain /\ [][NextMain]_vars

-----------------------------------------------------------------------------
(* Properties.                                                             *)

\* GameOptions has been constructed.
Constructed == pc \in {"configured", "prompt", "exited"}

\* GameOptions(choices) has returned or raised.
Validated == pc # "init"

\* A round of the game loop has been played to its result.
RoundPlayed == pc \in {"prompt", "exited"} /\ result_str # ""

IsName(v) == v.type = "str" /\ Len(v.val) > 0

\* The upper-cased first character of a name.
FirstKey(v) == upper(Str(<<v.val[1]>>))

Extended == [type |-> "tuple",
             items |-> <<Rock, Batman, Paper, Lizard, Scissors>>]

\* C1: for every constructed GameOptions over N names, k = (N-1)/2, the
\* dominance map sends the name at index i to the list
\* [names[(i-1) mod N], ..., names[(i-k) mod N]], closest predecessor first.
C1_CyclicPredecessors ==
    Constructed =>
        LET names == config.names.items
            N == Len(names)
            k == (N - 1) \div 2
        IN  /\ N % 2 = 1 /\ N >= 3
            /\ \A i \in 0..(N - 1) :
                  config.is_beaten_by[names[i + 1]]
                      = [j \in 1..k |-> names[((i - j) % N) + 1]]

C1_Witness ==
    /\ Constructed
    /\ config.names = Extended
    /\ config.is_beaten_by[Rock] = <<Scissors, Lizard>>
    /\ config.is_beaten_by[Batman] = <<Rock, Scissors>>
    /\ config.is_beaten_by[Paper] = <<Batman, Rock>>
    /\ config.is_beaten_by[Lizard] = <<Paper, Batman>>
    /\ config.is_beaten_by[Scissors] = <<Lizard, Paper>>

\* The names the dominance map lists for n, and the names that list n.
Defeats(n) == Range(config.is_beaten_by[n])
DefeatedBy(n) == {m \in DOMAIN config.is_beaten_by : n \in Defeats(m)}

\* C2: in the dominance map of a constructed GameOptions over N names, each
\* name defeats exactly (N-1)/2 other names and is defeated by exactly
\* (N-1)/2 other names, the two sets are disjoint, and no name is in its own
\* defeated list.
C2_BalancedTournament ==
    Constructed =>
        LET names == Range(config.names.items)
            k == (Len(config.names.items) - 1) \div 2
        IN  \A n \in names :
               /\ Len(config.is_beaten_by[n]) = k
               /\ Cardinality(Defeats(n)) = k
               /\ Defeats(n) \subseteq names \ {n}
               /\ Cardinality(DefeatedBy(n)) = k
               /\ DefeatedBy(n) \subseteq names \ {n}
               /\ Defeats(n) \cap DefeatedBy(n) = {}
               /\ n \notin Defeats(n)

C2_Witness ==
    /\ Constructed
    /\ Len(config.names.items) = 5
    /\ \A n \in Range(config.names.items) :
          Cardinality(Defeats(n)) = 2 /\ Cardinality(DefeatedBy(n)) = 2

\* C3: for two distinct names A, B of a constructed GameOptions and the Hands
\* built from it, exactly one of Hand(A).beats(Hand(B)) and
\* Hand(B).beats(Hand(A)) is true, and the round A against B is a WIN iff
\* the round B against A is a LOSE; the round just played obeys this too.
C3_Antisymmetric ==
    Constructed =>
        /\ \A A, B \in Range(config.names.items) :
              A # B =>
                 LET a == Hand(config, A).obj
                     b == Hand(config, B).obj
                 IN  /\ ~beats(a, b).raised /\ ~beats(b, a).raised
                     /\ beats(a, b).value # beats(b, a).value
                     /\ (round_result(a, b).value = "WIN")
                            <=> (round_result(b, a).value = "LOSE")
        /\ (RoundPlayed /\ result_str = "WIN")
              => round_result(robo_hand, player_hand).value = "LOSE"
        /\ (RoundPlayed /\ result_str = "LOSE")
              => round_result(robo_hand, player_hand).value = "WIN"

C3_Witness ==
    /\ RoundPlayed
    /\ result_str = "WIN"
    /\ player_hand.name # robo_hand.name
    /\ beats(player_hand, robo_hand).value
    /\ ~beats(robo_hand, player_hand).value

\* C4: the result of a round is DRAW iff the player's name equals the
\* computer's, WIN iff they differ and the computer's name is in the
\* dominance map entry of the player's name, and LOSE otherwise; exactly one
\* of the three is announced (no round ends in an exception).
C4_Outcome ==
    /\ Constructed =>
          \A first, second \in Range(config.names.items) :
             LET o == round_result(Hand(config, first).obj,
                                   Hand(config, second).obj)
             IN  /\ ~o.raised
                 /\ o.value \in {"DRAW", "WIN", "LOSE"}
                 /\ o.value = "DRAW" <=> first = second
                 /\ o.value = "WIN"
                       <=> (first # second
                            /\ second \in Range(config.is_beaten_by[first]))
    /\ RoundPlayed =>
          /\ result_str \in {"DRAW", "WIN", "LOSE"}
          /\ result_str = "DRAW" <=> player_hand.name = robo_hand.name
          /\ result_str = "WIN"
                <=> (player_hand.name # robo_hand.name
                     /\ robo_hand.name
                           \in Range(config.is_beaten_by[player_hand.name]))
    /\ pc = "raised" => config = NoConfig

C4_Witness ==
    /\ RoundPlayed
    /\ result_str = "LOSE"
    /\ player_hand.name # robo_hand.name
    /\ robo_hand.name \notin Range(config.is_beaten_by[player_hand.name])

\* C5: validation fails whenever a name's upper-cased first character is
\* QUIT_KEY, so no constructed GameOptions has the selection key QUIT_KEY.
C5_ReservedKeyRejected ==
    Validated =>
        /\ (\E i \in 1..Len(choices.items) :
               IsName(choices.items[i]) /\ FirstKey(choices.items[i]) = QUIT_KEY)
              => pc = "raised"
        /\ QUIT_KEY \notin Range(config.choice_keys)

\* C6: validation fails with TypeError whenever the container is not a tuple
\* or any element is not a string, whatever else is wrong with the input.
C6_TypeErrorFirst ==
    (Validated /\ (choices.type # "tuple"
                   \/ \E i \in 1..Len(choices.items) :
                         choices.items[i].type # "str"))
        => pc = "raised" /\ error.type = "TypeError"

\* A tuple of odd length >= 3 of pairwise distinct strings whose non-empty
\* names begin with pairwise distinct letters.
WellFormedButForEmpty ==
    /\ choices.type = "tuple"
    /\ Len(choices.items) >= 3 /\ Len(choices.items) % 2 = 1
    /\ \A i \in 1..Len(choices.items) : choices.items[i].type = "str"
    /\ \A i, j \in 1..Len(choices.items) :
          i # j => /\ choices.items[i] # choices.items[j]
                   /\ (IsName(choices.items[i]) /\ IsName(choices.items[j]))
                         => FirstKey(choices.items[i]) # FirstKey(choices.items[j])

\* C7: validation of an otherwise well-formed tuple holding an empty name
\* fails with a validation error of the documented kinds (ValueError).
C7_EmptyNameFormatError ==
    (Validated /\ WellFormedButForEmpty /\ Empty \in Range(choices.items))
        => pc = "raised" /\ error.type = "ValueError"

\* C8: validation of a tuple of fewer than 3 or of an even number of elements
\* fails with the ValueError of the length check that applies, and no
\* GameOptions (no map) is produced.
C8_ArityError ==
    (Validated /\ choices.type = "tuple"
               /\ (Len(choices.items) < 3 \/ Len(choices.items) % 2 = 0))
        => /\ pc = "raised"
           /\ error.type = "ValueError"
           /\ error.msg = IF Len(choices.items) < 3 THEN MsgTooFew ELSE MsgEven
           /\ config = NoConfig

C8_Witness ==
    /\ pc = "raised"
    /\ choices = [type |-> "tuple", items |-> <<Rock, Paper, Scissors, Lizard>>]
    /\ error = [type |-> "ValueError", msg |-> MsgEven]
    /\ config = NoConfig

\* Two names of the container share their upper-cased first character.
HasCollision ==
    \E i, j \in 1..Len(choices.items) :
        /\ i # j
        /\ IsName(choices.items[i]) /\ IsName(choices.items[j])
        /\ FirstKey(choices.items[i]) = FirstKey(choices.items[j])

CollisionError == [type |-> "ValueError", msg |-> MsgLetter]

\* Every accepted choice set has pairwise distinct upper-cased first
\* characters.
AcceptedKeysDistinct ==
    Constructed =>
        \A i, j \in 1..Len(config.names.items) :
            i # j => FirstKey(config.names.items[i])
                        # FirstKey(config.names.items[j])

\* C9 as stated: validation fails with the collision error whenever two names
\* of the tuple share their upper-cased first character; every accepted
\* choice set has pairwise distinct upper-cased first characters.
C9_CollisionAlways ==
    /\ (Validated /\ choices.type = "tuple" /\ HasCollision)
          => pc = "raised" /\ error = CollisionError
    /\ AcceptedKeysDistinct

\* The scan of validate_choices reaches a name that shares its upper-cased
\* first character with an earlier name, every element up to it being a
\* non-empty string, in a tuple of odd length >= 3 without repeated elements.
CollisionReached ==
    /\ choices.type = "tuple"
    /\ Len(choices.items) >= 3 /\ Len(choices.items) % 2 = 1
    /\ \A i, j \in 1..Len(choices.items) :
          i # j => choices.items[i] # choices.items[j]
    /\ \E j \in 1..Len(choices.items) :
          /\ \A i \in 1..j : IsName(choices.items[i])
          /\ \E i \in 1..(j - 1) :
                FirstKey(choices.items[i]) = FirstKey(choices.items[j])

\* C9 amended: validation fails with the collision error exactly when the
\* tuple passes the length and duplicate checks and the scan reaches a name
\* whose upper-cased first character an earlier name has; every accepted
\* choice set has pairwise distinct upper-cased first characters.
C9_CollisionWhenReached ==
    /\ Validated => (CollisionReached <=> (pc = "raised" /\ error = CollisionError))
    /\ AcceptedKeysDistinct

C9_Witness ==
    /\ pc = "raised"
    /\ choices = [type |-> "tuple", items |-> <<rock, Rock, Paper>>]
    /\ error = CollisionError

\* C10: a constructed GameOptions holds exactly the input tuple, same
\* elements in the same order, and the keys of its dominance map are exactly
\* these names.
C10_NamesPreserved ==
    Constructed =>
        /\ config.names = choices
        /\ \A i \in 1..Len(choices.items) :
              config.names.items[i] = choices.items[i]
        /\ DOMAIN config.is_beaten_by = Range(choices.items)

C10_Witness ==
    /\ Constructed
    /\ choices = [type |-> "tuple", items |-> <<Scissors, Rock, Paper>>]
    /\ config.names.items = <<Scissors, Rock, Paper>>
    /\ DOMAIN config.is_beaten_by = {Rock, Paper, Scissors}

\* C11: for a constructed GameOptions over N names, choice_map has exactly N
\* entries and maps the upper-cased first character of each name to that
\* name, reverse_choice_map is its inverse, and choice_keys lists the keys in
\* the order of names.
C11_ChoiceMapBijection ==
    Constructed =>
        LET names == config.names.items
            N == Len(names)
            cm == config.choice_map
            rcm == reverse_choice_map(config)
        IN  /\ Cardinality(DOMAIN cm) = N
            /\ DOMAIN cm = {FirstKey(names[i]) : i \in 1..N}
            /\ \A i \in 1..N : cm[FirstKey(names[i])] = names[i]
            /\ DOMAIN rcm = Range(names)
            /\ \A k \in DOMAIN cm : rcm[cm[k]] = k
            /\ \A n \in Range(names) : cm[rcm[n]] = n
            /\ config.choice_keys = [i \in 1..N |-> FirstKey(names[i])]

C11_Witness ==
    /\ Constructed
    /\ config.names.items = <<rock, Paper, Scissors>>
    /\ config.choice_keys = <<Str(<<"R">>), Str(<<"P">>), Str(<<"S">>)>>
    /\ config.choice_map[Str(<<"R">>)] = rock
    /\ reverse_choice_map(config)[rock] = Str(<<"R">>)

\* The input read is neither QUIT_KEY, nor a selection key, nor a name.
InvalidInput(c) ==
    /\ c # QUIT_KEY
    /\ c \notin Range(config.choice_keys)
    /\ c \notin Range(config.names.items)

\* C12: in player_choice an input (as get_user_input returns it) that is
\* neither the quit key, nor a selection key, nor a name never produces a
\* Hand and never ends the round: the player is prompted again, no computer
\* choice is drawn and the scores are unchanged; the Hand player_choice
\* returns has a name of the choice set and that name's upper-cased first
\* character as choice_key, and is the Hand of the key or name typed.
C12_InvalidInputReprompts ==
    /\ [][(pc = "prompt" /\ InvalidInput(last_choice'))
             => /\ pc' = "prompt"
                /\ ui_out' = "Invalid choice"
                /\ UNCHANGED <<player_hand, robo_hand, scores, result_str,
                               non_draws, config, hands, error>>]_vars
    /\ [][(pc = "prompt" /\ player_hand' # player_hand)
             => /\ ~InvalidInput(last_choice')
                /\ last_choice' \in {player_hand'.choice_key, player_hand'.name}]_vars
    /\ [](player_hand # NoHand
             => /\ player_hand.name \in Range(config.names.items)
                /\ player_hand.choice_key = FirstKey(player_hand.name))

C12_Witness ==
    /\ pc = "prompt"
    /\ ui_out = "Invalid choice"
    /\ last_choice = Str(<<"R","O","C","K">>)
    /\ InvalidInput(last_choice)
    /\ result_str = "WIN"
    /\ scores = [player |-> 1, robo |-> 0]

\* A step of the game loop that completes a round: a line was read at the
\* prompt that is not the quit key and that Hand accepts.
RoundStep == pc = "prompt" /\ pc' = "prompt" /\ ~InvalidInput(last_choice')

\* C13: the scores start at 0; a completed round changes them in exactly one
\* way, DRAW neither score, WIN the player's by exactly 1, LOSE the
\* computer's by exactly 1; nothing else changes them, they never decrease,
\* and player + robo is the number of rounds played whose hands differ.
C13_ScoreTally ==
    /\ [](/\ scores.player >= 0 /\ scores.robo >= 0
          /\ scores.player + scores.robo = non_draws
          /\ (pc \in {"init", "configured"}
                 => scores = [player |-> 0, robo |-> 0]))
    /\ [][/\ scores'.player >= scores.player /\ scores'.robo >= scores.robo
          /\ RoundStep =>
                /\ result_str' \in {"DRAW", "WIN", "LOSE"}
                /\ result_str' = "DRAW" <=> player_hand'.name = robo_hand'.name
                /\ result_str' = "DRAW" => scores' = scores
                /\ result_str' = "WIN"
                      => scores' = [player |-> scores.player + 1,
                                    robo |-> scores.robo]
                /\ result_str' = "LOSE"
                      => scores' = [player |-> scores.player,
                                    robo |-> scores.robo + 1]
          /\ ~RoundStep => scores' = scores]_vars

C13_Witness ==
    /\ pc = "prompt"
    /\ ui_out = "round"
    /\ result_str = "DRAW"
    /\ scores = [player |-> 1, robo |-> 1]
    /\ non_draws = 2

\* The Hands of the constructed GameOptions built directly by
\* Hand(options, name), followed by the Hands of main's HandsFactory.
DirectAndFactoryHands == new_hands(config) \o hands

\* C14: for any two Hands of the same GameOptions, built directly or taken
\* from HandsFactory, a.beats(b) completes without error and is True iff
\* b.name is in the dominance map entry of a.name.
C14_BeatsAnyHands ==
    pc \in {"prompt", "exited"} =>
        \A i, j \in 1..Len(DirectAndFactoryHands) :
            LET a == DirectAndFactoryHands[i]
                b == DirectAndFactoryHands[j]
            IN  /\ ~beats(a, b).raised
                /\ beats(a, b).value
                      <=> b.name \in Range(config.is_beaten_by[a.name])

====
